---- MODULE Spec2Model ----
(***************************************************************************)
(* Resume store, autosave change tracker and AI field enhancement of the   *)
(* resume server (server/controllers/temp2controller.js over the schema of *)
(* server/models/Temp2Model.js).                                           *)
(*                                                                         *)
(* Strings are sequences of one-character strings, so that trim,           *)
(* lowercase and the validation patterns are computed, not assumed.        *)
(* A handler is one action per store (or generation-model) round trip:     *)
(* the synchronous code before and after an await belongs to the action    *)
(* of that await.                                                          *)
(***************************************************************************)
EXTENDS Integers, Sequences, FiniteSets, TLC

\* ------------------------------------------------------------------ bounds
\* requests and tracked edits accepted in one run
MaxOps == 3
\* documents the store can hold
MaxDocs == 2
\* handlers suspended at an await at the same time
MaxInFlight == 2

\* ----------------------------------------------------------------- strings
IsSpace(c) == c = " "

RECURSIVE TrimLeft(_)
TrimLeft(s) ==
    IF s = <<>> THEN s
    ELSE IF IsSpace(Head(s)) THEN TrimLeft(Tail(s)) ELSE s

RECURSIVE TrimRight(_)
TrimRight(s) ==
    IF s = <<>> THEN s
    ELSE IF IsSpace(s[Len(s)]) THEN TrimRight(SubSeq(s, 1, Len(s) - 1)) ELSE s

\* String.prototype.trim, and the schema's trim: true
Trim(s) == TrimRight(TrimLeft(s))

LowerChar(c) ==
    CASE c = "A" -> "a"
      [] c = "B" -> "b"
      [] OTHER -> c

\* the schema's lowercase: true
Lower(s) == [i \in 1..Len(s) |-> LowerChar(s[i])]

\* /^[^\s@]+@[^\s@]+\.[^\s@]+$/
EmailRegex(s) ==
    /\ \A i \in 1..Len(s) : ~IsSpace(s[i])
    /\ Cardinality({i \in 1..Len(s) : s[i] = "@"}) = 1
    /\ \E at \in 2..Len(s) :
          /\ s[at] = "@"
          /\ \E dot \in (at + 2)..(Len(s) - 1) : s[dot] = "."

\* /^[\d\s\+\-\(\)]+$/
PhoneRegex(s) ==
    /\ Len(s) > 0
    /\ \A i \in 1..Len(s) : s[i] \in {"1", "2", " ", "+", "-", "(", ")"}

\* ------------------------------------------------------------------ schema
EntryKeys == {"title", "description", "accomplishment"}

ScalarFields == {"name", "phone", "email", "summary"}

\* setters of the experience sub-schema: strict mode drops unknown keys,
\* every declared key is trimmed
CastEntry(e) == [k \in (DOMAIN e) \cap EntryKeys |-> Trim(e[k])]

CastDocAsSent(d) == d

\* setters of the resume schema on the fields of a full document
CastDoc(d) ==
    [d EXCEPT !.name = Trim(d.name),
              !.phone = Trim(d.phone),
              !.email = Lower(Trim(d.email)),
              !.summary = Trim(d.summary),
              !.experience = [i \in 1..Len(d.experience) |-> CastEntry(d.experience[i])]]

EntryValid(e) == \A k \in EntryKeys : k \in DOMAIN e /\ e[k] # <<>>

\* validators of the resume schema (required, the phone and email patterns,
\* at least one entry); maxlength cannot be reached by the bounded strings
SchemaValid(d) ==
    /\ \A f \in ScalarFields : d[f] # <<>>
    /\ PhoneRegex(d.phone)
    /\ EmailRegex(d.email)
    /\ Len(d.experience) > 0
    /\ \A i \in 1..Len(d.experience) : EntryValid(d.experience[i])
    /\ Len(d.skills) > 0

\* pre('save'): trim every skill and drop the empty ones
RECURSIVE CleanSkills(_)
CleanSkills(sk) ==
    IF sk = <<>> THEN <<>>
    ELSE IF Trim(Head(sk)) = <<>> THEN CleanSkills(Tail(sk))
         ELSE <<Trim(Head(sk))>> \o CleanSkills(Tail(sk))

\* validateResumeData: the list of error messages
validateResumeData(rd) ==
    (IF Trim(rd.name) = <<>> THEN <<"Name is required">> ELSE <<>>)
    \o (IF rd.email = <<>> \/ ~EmailRegex(rd.email)
        THEN <<"Valid email is required">> ELSE <<>>)
    \o (IF Trim(rd.phone) = <<>> THEN <<"Phone number is required">> ELSE <<>>)

\* ------------------------------------------------------------ data domains
Users == {"u1", "u2"}

NoId == 0

EmA == <<"a", "@", "x", ".", "y">>

EmAUpper == <<"A", "@", "x", ".", "y">>

EmB == <<"b", "@", "x", ".", "y">>

Entry1 == [title |-> <<"t">>, description |-> <<"d">>, accomplishment |-> <<"c">>]

Entry2 == [title |-> <<"u">>, description |-> <<"e">>, accomplishment |-> <<"f">>]

\* a complete, valid resume as a client sends it (no _id yet)
BaseResume ==
    [_id |-> NoId, email |-> EmA, name |-> <<"n">>, phone |-> <<"1">>,
     summary |-> <<"s">>, skills |-> << <<"k">> >>,
     experience |-> <<Entry1, Entry2>>, updatedAt |-> 0]

\* the resume a database restored from an earlier run holds
StoredResume == [BaseResume EXCEPT !._id = 1, !.updatedAt = 1]

EmBUpper == <<"B", "@", "x", ".", "y">>

\* the bodies of create requests: the stored address in upper case, a
\* blank name, and a resume with another address, as a client may type it:
\* the address in upper case, a space after the name, a blank skill
CreatePayloads ==
    {[BaseResume EXCEPT !.email = EmAUpper, !.summary = <<"z">>],
     [BaseResume EXCEPT !.name = <<" ">>],
     [BaseResume EXCEPT !.email = EmBUpper, !.name = <<"n", " ">>,
                        !.skills = << <<"k">>, <<" ">> >>]}

\* the bodies of save requests: an edit of document 1 (its summary and the
\* title of its second experience entry) under its _id, the
\* resume under the _id of document 2, and without _id the stored address
\* in upper case
SavePayloads ==
    {[StoredResume EXCEPT !.summary = <<"z">>, !.experience[2].title = <<"v">>],
     [StoredResume EXCEPT !._id = 2],
     [BaseResume EXCEPT !.email = EmAUpper, !.name = <<"m">>]}

\* the snapshots the editor passes to trackChanges: document 1 as loaded, an
\* edit of it, and an edit under the _id of document 2
EditPayloads ==
    {StoredResume,
     [StoredResume EXCEPT !.summary = <<"z">>],
     [StoredResume EXCEPT !._id = 2, !.summary = <<"z">>]}

\* user u1 edits; the editor of user u2 shows document 1 as loaded
EditsOf(u) == IF u = "u1" THEN EditPayloads ELSE {StoredResume}

\* ------------------------------------------------------------------- store
\* store: document id -> persisted document; DOMAIN store are the ids in use

EmailFree(st, id, email) == FALSE

\* the unique index on email
EmailTaken(st, id, email) == \E j \in DOMAIN st : j # id /\ st[j].email = email

findOneExact(st, email) ==
    IF \E j \in DOMAIN st : st[j].email = email
    THEN CHOOSE j \in DOMAIN st : st[j].email = email
    ELSE NoId

\* Resume.findOne({ email }): the filter is cast by the schema's setters;
\* NoId when no document matches
findOne(st, email) ==
    LET cast == Lower(Trim(email)) IN
    IF \E j \in DOMAIN st : st[j].email = cast
    THEN CHOOSE j \in DOMAIN st : st[j].email = cast
    ELSE NoId

findByIdAndUpdateIfCurrent(st, id, data, runValidators) ==
    IF id \notin DOMAIN st
    THEN [status |-> "null", store |-> st, id |-> NoId]
    ELSE IF data.updatedAt # st[id].updatedAt
    THEN [status |-> "VersionError", store |-> st, id |-> NoId]
    ELSE [status |-> "ok",
          store |-> [st EXCEPT ![id] = [CastDoc(data) EXCEPT !._id = id,
                                           !.updatedAt = st[id].updatedAt + 1]],
          id |-> id]

findByIdAndUpdateKeepingName(st, id, data, runValidators) ==
    IF id \notin DOMAIN st
    THEN [status |-> "null", store |-> st, id |-> NoId]
    ELSE [status |-> "ok",
          store |-> [st EXCEPT ![id] = [CastDoc(data) EXCEPT !._id = id,
                                           !.name = st[id].name,
                                           !.updatedAt = st[id].updatedAt + 1]],
          id |-> id]

\* Resume.findByIdAndUpdate(id, { $set: data }, { runValidators }): every
\* write stamps updatedAt (timestamps: true)
findByIdAndUpdate(st, id, data, runValidators) ==
    LET c == CastDoc(data) IN
    IF runValidators /\ ~SchemaValid(c)
    THEN [status |-> "ValidationError", store |-> st, id |-> NoId]
    ELSE IF id \notin DOMAIN st
    THEN [status |-> "null", store |-> st, id |-> NoId]
    ELSE IF EmailTaken(st, id, c.email)
    THEN [status |-> "E11000", store |-> st, id |-> NoId]
    ELSE [status |-> "ok",
          store |-> [st EXCEPT ![id] =
                        [c EXCEPT !._id = id, !.updatedAt = st[id].updatedAt + 1]],
          id |-> id]

FreeId(st) == CHOOSE i \in 1..MaxDocs : i \notin DOMAIN st /\ \A j \in 1..(i - 1) : j \in DOMAIN st

\* new Resume(data).save(): validation, then the pre('save') hook, then the
\* insert under the unique index
saveNew(st, data) ==
    LET c == CastDoc(data) IN
    IF ~SchemaValid(c)
    THEN [status |-> "ValidationError", store |-> st, id |-> NoId]
    ELSE IF EmailTaken(st, NoId, c.email)
    THEN [status |-> "E11000", store |-> st, id |-> NoId]
    ELSE [status |-> "ok",
          store |-> st @@ (FreeId(st) :>
                        [c EXCEPT !._id = FreeId(st),
                                  !.skills = CleanSkills(c.skills),
                                  !.updatedAt = 1]),
          id |-> FreeId(st)]

\* the insert of data would add a document; the bound on the collection
\* applies to these inserts only
HasRoom(st, data) ==
    LET c == CastDoc(data) IN
    (SchemaValid(c) /\ ~EmailTaken(st, NoId, c.email)) => Cardinality(DOMAIN st) < MaxDocs

\* ------------------------------------------------------------------- state
VARIABLES
    store,           \* the resumes collection
    changeTrackers,  \* the changeTrackers Map: userId -> tracker
    timer,           \* the one debounce timer of debouncedAutoSave and its last arguments
    inflight,        \* handlers suspended at an await
    crashed,         \* the process has exited
    ops,             \* requests and tracked edits accepted so far
    burst,           \* history: the trackChanges calls of the latest debounce window
    enhanced,        \* history: the latest enhancement answered 200
    raced,           \* history: the latest save applied while another was pending
    last             \* history: what the last step did and answered

vars == <<store, changeTrackers, timer, inflight, crashed, ops, burst, enhanced, raced, last>>

Nothing ==
    [_id |-> NoId, email |-> <<>>, name |-> <<>>, phone |-> <<>>, summary |-> <<>>,
     skills |-> <<>>, experience |-> <<>>, updatedAt |-> 0]

NoIndex == -1

TimerIdle == [armed |-> FALSE, userId |-> "", resumeData |-> Nothing]

\* calls: for every user that called trackChanges in the window, how often,
\* and the data of its last call
NoBurst == [user |-> "", calls |-> <<>>]

\* old and value: the persisted field before and after its write; snap: the
\* snapshot the debounce timer held at that moment
NotEnhanced == [id |-> NoId, field |-> "", old |-> <<>>, value |-> <<>>, snap |-> Nothing]

\* first: the payload of the save applied; pending: the payload of a save
\* for the same document that was suspended at that moment
NotRaced == [id |-> NoId, first |-> Nothing, pending |-> Nothing]

\* what a step did: the handler, the status it answered (0: no response),
\* the document and field it was about, whether it applied a store write,
\* the branch it took and the input that decided it
Did(op, status, id, field, index, wrote, note, arg) ==
    [op |-> op, status |-> status, id |-> id, field |-> field,
     index |-> index, wrote |-> wrote, note |-> note, arg |-> arg]

\* a handler suspended at the await of the call pc; n tells it from the
\* handlers suspended with the same arguments
Suspended(kind, pc, user, data, id, field, index) ==
    LET h(n) == [kind |-> kind, pc |-> pc, user |-> user, data |-> data, id |-> id,
                 field |-> field, index |-> index, n |-> n]
        same == {r \in inflight : [r EXCEPT !.pc = pc, !.id = id, !.n = 0] = h(0)}
    IN  h(CHOOSE n \in 0..Cardinality(same) : \A r \in same : r.n # n)

\* the server starts on a database that holds one resume
Init ==
    /\ store = (1 :> StoredResume)
    /\ changeTrackers = <<>>
    /\ timer = TimerIdle
    /\ inflight = {}
    /\ crashed = FALSE
    /\ ops = 0
    /\ burst = NoBurst
    /\ enhanced = NotEnhanced
    /\ raced = NotRaced
    /\ last = Did("init", 0, NoId, "", NoIndex, FALSE, "", <<>>)

\* -------------------------------------------------------- autosave tracker
trackedAsPending(ct, userId, resumeData) ==
    IF userId \notin DOMAIN ct
    THEN ct @@ (userId :> [lastData |-> resumeData, pendingSave |-> TRUE, lastSavedAt |-> 0])
    ELSE [ct EXCEPT ![userId].pendingSave = TRUE]

\* trackChanges, lines 116-126: the tracker after the call
trackedAs(ct, userId, resumeData) ==
    IF userId \notin DOMAIN ct
    THEN ct @@ (userId :> [lastData |-> resumeData, pendingSave |-> FALSE, lastSavedAt |-> 0])
    ELSE [ct EXCEPT ![userId].pendingSave = TRUE]

\* a call of the debounced function: the timer restarts and keeps the
\* arguments of this call only
debounced(userId, resumeData) ==
    [armed |-> TRUE, userId |-> userId, resumeData |-> resumeData]

\* the window after one more call of trackChanges
called(b, userId, resumeData) ==
    [user |-> userId,
     calls |-> [u \in (DOMAIN b.calls) \cup {userId} |->
                  IF u # userId THEN b.calls[u]
                  ELSE [n |-> IF u \in DOMAIN b.calls THEN b.calls[u].n + 1 ELSE 1,
                        data |-> resumeData]]]

\* trackChanges(userId, resumeData)
trackChanges(userId, resumeData) ==
    /\ changeTrackers' = trackedAs(changeTrackers, userId, resumeData)
    /\ timer' = debounced(userId, resumeData)
    /\ burst' = called(IF timer.armed THEN burst ELSE NoBurst, userId, resumeData)

Accept ==
    /\ ~crashed
    /\ ops < MaxOps
    /\ ops' = ops + 1

\* the exported trackChanges called with an edit of the client
TrackEdit(u, rd) ==
    /\ Accept
    /\ trackChanges(u, rd)
    /\ last' = Did("trackChanges", 0, rd._id, "", NoIndex, FALSE, "", rd)
    /\ UNCHANGED <<store, inflight, crashed, enhanced, raced>>

\* loadResume
LoadResume(u, email) ==
    /\ Accept
    /\ IF email = <<>>
       THEN /\ last' = Did("loadResume", 400, NoId, "", NoIndex, FALSE, "", email)
            /\ UNCHANGED <<changeTrackers, timer, burst>>
       ELSE IF findOne(store, email) = NoId
       THEN /\ last' = Did("loadResume", 404, NoId, "", NoIndex, FALSE, "", email)
            /\ UNCHANGED <<changeTrackers, timer, burst>>
       ELSE LET resume == store[findOne(store, email)] IN
            /\ trackChanges(u, resume)
            /\ last' = Did("loadResume", 200, resume._id, "", NoIndex, FALSE, "", email)
    /\ UNCHANGED <<store, inflight, crashed, enhanced, raced>>

\* ------------------------------------------------------------ saveResumeData
\* lines 48-79 after validation: the store call saveResumeData awaits first
firstCall(rd) == IF rd._id # NoId THEN "findByIdAndUpdate" ELSE "findOne"

\* lines 61-78: the findOne by email returns, and the update of the document
\* found, or the insert of a new one, is issued
SaveFindOne(r) ==
    /\ ~crashed
    /\ r \in inflight
    /\ r.pc = "findOne"
    /\ LET existing == findOne(store, r.data.email) IN
       inflight' = (inflight \ {r}) \cup
           {IF existing # NoId
            THEN [r EXCEPT !.pc = "findByIdAndUpdate", !.id = existing]
            ELSE [r EXCEPT !.pc = "save"]}
    /\ last' = Did(r.kind, 0, NoId, "", NoIndex, FALSE, "findOne", r.data)
    /\ UNCHANGED <<store, changeTrackers, timer, crashed, ops, burst, enhanced, raced>>

\* the store call of a suspended saveResumeData: lines 50-54 and 65-69
\* (findByIdAndUpdate, validators off for an autosave), or line 77 (save)
storeCall(r) ==
    IF r.pc = "findByIdAndUpdate"
    THEN findByIdAndUpdate(store, r.id, r.data, r.kind # "autosave")
    ELSE saveNew(store, r.data)

\* createResume and saveResume after saveResumeData: track the saved
\* document and answer, or answer 500 from the catch block
Answered(r, res, okStatus) ==
    /\ store' = res.store
    /\ IF res.status = "ok"
       THEN /\ trackChanges(r.user, res.store[res.id])
            /\ last' = Did(r.kind, okStatus, res.id, "", NoIndex, TRUE, "ok", r.data)
       ELSE /\ last' = Did(r.kind, 500, r.id, "", NoIndex, FALSE, res.status, r.data)
            /\ UNCHANGED <<changeTrackers, timer, burst>>

\* debouncedAutoSave after saveResumeData, lines 103-111: the tracker is
\* replaced, or the error is logged
AutoSaved(r, res) ==
    /\ store' = res.store
    /\ IF res.status = "ok"
       THEN /\ changeTrackers' = [changeTrackers EXCEPT ![r.user] =
                   [lastData |-> r.data, pendingSave |-> FALSE,
                    lastSavedAt |-> changeTrackers[r.user].lastSavedAt + 1]]
            /\ last' = Did("autosave", 0, res.id, "", NoIndex, TRUE, "ok", r.data)
       ELSE /\ last' = Did("autosave", 0, r.id, "", NoIndex, FALSE, res.status, r.data)
            /\ UNCHANGED changeTrackers
    /\ UNCHANGED <<timer, burst>>

\* the suspended save requests, among hs, that are about to write document id
pendingOn(hs, id) ==
    {q \in hs : /\ q.kind = "saveResume"
                /\ \/ q.pc = "findByIdAndUpdate" /\ q.id = id
                   \/ q.pc = "findOne" /\ findOne(store, q.data.email) = id}

\* the write of a suspended saveResumeData is applied and its caller resumes
SaveWrite(r) ==
    /\ ~crashed
    /\ r \in inflight
    /\ r.pc \in {"findByIdAndUpdate", "save"}
    /\ r.pc = "save" => HasRoom(store, r.data)
    /\ inflight' = inflight \ {r}
    /\ LET res == storeCall(r)
           others == pendingOn(inflight \ {r}, res.id)
       IN  /\ CASE r.kind = "createResume" -> Answered(r, res, 201)
                [] r.kind = "saveResume" -> Answered(r, res, 200)
                [] r.kind = "autosave" -> AutoSaved(r, res)
           /\ raced' = IF r.kind = "saveResume" /\ res.status = "ok" /\ others # {}
                        THEN [id |-> res.id, first |-> r.data,
                              pending |-> (CHOOSE q \in others : TRUE).data]
                        ELSE raced
    /\ UNCHANGED <<crashed, ops, enhanced>>

\* createResume, lines 133-169: validation, the findOne by email, and the
\* call of saveResumeData
CreateResume(u, rd) ==
    /\ Accept
    /\ IF validateResumeData(rd) # <<>>
       THEN /\ last' = Did("createResume", 400, NoId, "", NoIndex, FALSE, "Validation failed", rd)
            /\ UNCHANGED inflight
       ELSE IF findOne(store, rd.email) # NoId
       THEN /\ last' = Did("createResume", 409, findOne(store, rd.email), "", NoIndex, FALSE,
                           "Resume with this email already exists", rd)
            /\ UNCHANGED inflight
       ELSE /\ Cardinality(inflight) < MaxInFlight
            /\ inflight' = inflight \cup
                 {Suspended("createResume", firstCall(rd), u, rd, rd._id, "", NoIndex)}
            /\ last' = Did("createResume", 0, NoId, "", NoIndex, FALSE, "saveResumeData", rd)
    /\ UNCHANGED <<store, changeTrackers, timer, crashed, burst, enhanced, raced>>

\* saveResume, lines 193-216: validation and the call of saveResumeData
SaveResume(u, rd) ==
    /\ Accept
    /\ IF validateResumeData(rd) # <<>>
       THEN /\ last' = Did("saveResume", 400, NoId, "", NoIndex, FALSE, "Validation failed", rd)
            /\ UNCHANGED inflight
       ELSE /\ Cardinality(inflight) < MaxInFlight
            /\ inflight' = inflight \cup
                 {Suspended("saveResume", firstCall(rd), u, rd, rd._id, "", NoIndex)}
            /\ last' = Did("saveResume", 0, NoId, "", NoIndex, FALSE, "saveResumeData", rd)
    /\ UNCHANGED <<store, changeTrackers, timer, crashed, burst, enhanced, raced>>

autoSaveDueWhenever(ct, userId, resumeData) == userId \in DOMAIN ct

\* lines 93-98: the user is tracked, its tracker has pending changes and the
\* snapshot differs from the tracker's lastData
autoSaveDue(ct, userId, resumeData) ==
    /\ userId \in DOMAIN ct
    /\ ct[userId].pendingSave
    /\ ct[userId].lastData # resumeData

\* the debounce timer fires: debouncedAutoSave, lines 91-102
TimerFire ==
    /\ ~crashed
    /\ timer.armed
    /\ timer' = TimerIdle
    /\ LET userId == timer.userId
           resumeData == timer.resumeData
       IN  IF autoSaveDue(changeTrackers, userId, resumeData)
           THEN /\ Cardinality(inflight) < MaxInFlight
                /\ inflight' = inflight \cup
                     {Suspended("autosave", firstCall(resumeData), userId, resumeData,
                                resumeData._id, "", NoIndex)}
                /\ last' = Did("timer", 0, resumeData._id, "", NoIndex, FALSE, "saving", timer)
           ELSE /\ UNCHANGED inflight
                /\ last' = Did("timer", 0, resumeData._id, "", NoIndex, FALSE, "nothing to save", timer)
    /\ UNCHANGED <<store, changeTrackers, crashed, ops, burst, enhanced, raced>>

\* ------------------------------------------------------------ enhanceField
\* what the generation model does with a prompt: it throws, or returns a
\* text; parses says whether JSON.parse accepts the text, and value is the
\* object it then yields
Reply(throws, parses, text, value) ==
    [throws |-> throws, parses |-> parses, text |-> text, value |-> value]

GenerationFails == Reply(TRUE, FALSE, <<>>, <<>>)

\* texts that are no JSON: a comma-separated list with an empty item, and blank
TextReplies ==
    {Reply(FALSE, FALSE, <<"p", ",", " ", ",", "g">>, <<>>),
     Reply(FALSE, FALSE, <<" ">>, <<>>)}

\* a JSON object: a key the experience prompt asks for, a key it does not
\* ask for and a key the schema does not know
JsonReplies ==
    {Reply(FALSE, TRUE, <<"{", "}">>,
           [description |-> <<"D", " ">>, title |-> <<"T">>, bogus |-> <<"x">>])}

\* Array.isArray(resume[field])
isArrayField(field) == field \in {"skills", "experience"}

\* line 387: an entry of an array is enhanced when an index is given and
\* the field holds an array; every other request enhances the whole field
entryMode(field, index) == index # NoIndex /\ isArrayField(field)

\* what the model may answer to the prompt of a suspended request: entry
\* prompts ask for JSON, whole-field prompts for text
RepliesTo(r) ==
    IF entryMode(r.field, r.index)
    THEN {GenerationFails, Reply(FALSE, FALSE, <<" ">>, <<>>)} \cup JsonReplies
    ELSE {GenerationFails} \cup TextReplies

\* lines 398-469: the fields an entry prompt exists for (of the fields this
\* model's schema holds)
entrySupported(field) == field \in {"experience"}

wholeSupportedDefault(field) == TRUE

\* lines 514-528: the fields a whole-field prompt exists for
wholeSupported(field) == field \in {"summary", "skills"}

indexInvalidPastEnd(fieldData, index) == index > Len(fieldData)

\* line 389: the index names no entry of the array (index counts from 0)
indexInvalid(fieldData, index) == index >= Len(fieldData)

\* text.split(','): the items between the commas
RECURSIVE Split(_)
Split(s) ==
    IF \E i \in 1..Len(s) : s[i] = ","
    THEN LET i == CHOOSE k \in 1..Len(s) : s[k] = "," /\ \A j \in 1..(k - 1) : s[j] # ","
         IN  <<SubSeq(s, 1, i - 1)>> \o Split(SubSeq(s, i + 1, Len(s)))
    ELSE <<s>>

\* lines 536-541: the update of a whole field
wholeUpdate(field, enhancedText) ==
    IF field = "skills"
    THEN [i \in 1..Len(Split(enhancedText)) |-> Trim(Split(enhancedText)[i])]
    ELSE enhancedText

updatedEntryReplaced(entry, enhancedData) == enhancedData

\* lines 488-491: { ...entry.toObject(), ...enhancedData }
updatedEntry(entry, enhancedData) ==
    [k \in (DOMAIN entry) \cup (DOMAIN enhancedData) |->
        IF k \in DOMAIN enhancedData THEN enhancedData[k] ELSE entry[k]]

\* lines 494-495: the array read with the request, with the entry replaced
\* (index counts from 0)
updatedArray(fieldData, index, enhancedData) ==
    [fieldData EXCEPT ![index + 1] = updatedEntry(fieldData[index + 1], enhancedData)]

\* the setters of one field of the schema
CastField(field, value) ==
    CASE field = "experience" -> [i \in 1..Len(value) |-> CastEntry(value[i])]
      [] field = "email" -> Lower(Trim(value))
      [] field \in {"name", "phone", "summary"} -> Trim(value)
      [] OTHER -> value

setFieldReplacingDocument(st, id, field, value) ==
    [st EXCEPT ![id] = [Nothing EXCEPT !._id = id,
                                       ![field] = CastField(field, value),
                                       !.updatedAt = st[id].updatedAt + 1]]

\* Resume.findByIdAndUpdate(resumeId, { $set: { [field]: value } }, { new: true })
setField(st, id, field, value) ==
    [st EXCEPT ![id] = [@ EXCEPT ![field] = CastField(field, value),
                                 !.updatedAt = @ + 1]]

afterParseErrorFallsThrough(st, r) == setField(st, r.id, r.field, r.data[r.field])

\* lines 477-485: the store after JSON.parse has thrown; the handler returns
\* before the update
afterParseError(st, r) == st

\* an exception reaches the catch block of enhanceField, lines 556-563: its
\* first statement reads `field`, a const of the try block, and throws a
\* ReferenceError, so the handler's promise rejects without a response.
\* Express 4 leaves the rejection unhandled and server.js:77-80 exits the
\* process; Express 5 hands it to the application's error handler.
Rejected(r, note) ==
    /\ UNCHANGED <<store, changeTrackers, timer, burst, enhanced>>
    /\ \/ /\ crashed' = TRUE
          /\ last' = Did("enhanceField", 0, r.id, r.field, r.index, FALSE, note, "process exit")
       \/ /\ crashed' = FALSE
          /\ last' = Did("enhanceField", 500, r.id, r.field, r.index, FALSE, note, "errorHandler")

\* enhanceField, lines 352-472 and 512-531: the checks, the read of the
\* resume and the prompt; the handler then awaits the generation model
EnhanceField(resumeId, field, index) ==
    /\ Accept
    /\ LET answer(status, note) ==
               /\ last' = Did("enhanceField", status, resumeId, field, index, FALSE, note, <<>>)
               /\ UNCHANGED inflight
           generate ==
               /\ Cardinality(inflight) < MaxInFlight
               /\ inflight' = inflight \cup
                    {Suspended("enhanceField", "generateContent", "", store[resumeId],
                               resumeId, field, index)}
               /\ last' = Did("enhanceField", 0, resumeId, field, index, FALSE, "prompt", <<>>)
       IN  IF resumeId = NoId THEN answer(400, "Resume ID is required")
           ELSE IF field = "" THEN answer(400, "Field to enhance is required")
           ELSE IF resumeId \notin DOMAIN store THEN answer(404, "Resume not found")
           ELSE IF entryMode(field, index)
           THEN IF indexInvalid(store[resumeId][field], index)
                THEN answer(400, "Invalid index for field array")
                ELSE IF entrySupported(field) THEN generate
                ELSE answer(400, "Field not supported for individual entry enhancement")
           ELSE IF wholeSupported(field) THEN generate
           ELSE answer(400, "Field not supported for enhancement")
    /\ UNCHANGED <<store, changeTrackers, timer, crashed, burst, enhanced, raced>>

\* lines 472-510 and 531-553: the generation model returns, the text is
\* parsed, the field is written and the request answered
EnhanceReply(r, reply) ==
    /\ ~crashed
    /\ r \in inflight
    /\ r.kind = "enhanceField"
    /\ reply \in RepliesTo(r)
    /\ inflight' = inflight \ {r}
    /\ UNCHANGED <<ops, raced>>
    /\ IF reply.throws THEN Rejected(r, "generation failed")
       ELSE /\ UNCHANGED <<changeTrackers, timer, crashed, burst>>
            /\ IF entryMode(r.field, r.index) /\ ~reply.parses
               THEN /\ store' = afterParseError(store, r)
                    /\ last' = Did("enhanceField", 500, r.id, r.field, r.index, FALSE,
                                   "parse error", reply.text)
                    /\ UNCHANGED enhanced
               ELSE LET value == IF entryMode(r.field, r.index)
                                 THEN updatedArray(r.data[r.field], r.index, reply.value)
                                 ELSE wholeUpdate(r.field, reply.text)
                    IN  /\ store' = setField(store, r.id, r.field, value)
                        /\ enhanced' = [id |-> r.id, field |-> r.field,
                                        old |-> store[r.id][r.field],
                                        value |-> CastField(r.field, value),
                                        snap |-> timer.resumeData]
                        /\ last' = Did("enhanceField", 200, r.id, r.field, r.index, TRUE,
                                       IF entryMode(r.field, r.index) THEN "entry" ELSE "whole",
                                       IF entryMode(r.field, r.index) THEN reply.value
                                       ELSE reply.text)

\* ----------------------------------------------------------------- requests
\* the user the HTTP requests of a run are authenticated as
Requesters == {"u1"}

LoadEmails == {EmAUpper, EmB}

\* resumeId, field and index of the enhancement requests; the request for
\* the summary carries an index, which line 387 passes over for a field that
\* holds no array
EnhanceRequests ==
    {<<1, "summary", 0>>, <<1, "skills", NoIndex>>, <<1, "experience", 0>>,
     <<1, "experience", 2>>, <<1, "experience", NoIndex>>,
     <<1, "skills", 0>>, <<1, "skills", 1>>,
     <<1, "name", NoIndex>>, <<1, "name", 0>>,
     <<2, "name", NoIndex>>, <<1, "", NoIndex>>, <<NoId, "summary", NoIndex>>}

Next ==
    \/ \E u \in Users : \E rd \in EditsOf(u) : TrackEdit(u, rd)
    \/ \E u \in Requesters, e \in LoadEmails : LoadResume(u, e)
    \/ \E u \in Requesters, rd \in CreatePayloads : CreateResume(u, rd)
    \/ \E u \in Requesters, rd \in SavePayloads : SaveResume(u, rd)
    \/ \E q \in EnhanceRequests : EnhanceField(q[1], q[2], q[3])
    \/ \E r \in inflight : SaveFindOne(r)
    \/ \E r \in inflight : SaveWrite(r)
    \/ \E r \in inflight : \E reply \in RepliesTo(r) : EnhanceReply(r, reply)
    \/ TimerFire

Spec == Init /\ [][Next]_vars

\* the event loop runs every timer that is due, and the store and the
\* generation model answer every call
FairSpec ==
    /\ Spec
    /\ WF_vars(TimerFire)
    /\ WF_vars(\E r \in inflight : SaveFindOne(r))
    /\ WF_vars(\E r \in inflight : SaveWrite(r))
    /\ WF_vars(\E r \in inflight : \E reply \in RepliesTo(r) : EnhanceReply(r, reply))

\* ------------------------------------------------------------------ claims
\* the step completes the suspended handler it returns
Completes(r) == r \in inflight /\ r \notin inflight'

\* C1: for any user, two or more tracked edits that arrive within one
\* debounce window, the last of them differing from the data the user's
\* tracker knows, result in exactly one autosave store write when the timer
\* fires, and that write carries the data of the user's last edit of the burst
C1Original ==
    last.op = "timer" =>
        \A u \in DOMAIN burst.calls :
            (burst.calls[u].n >= 2 /\ changeTrackers[u].lastData # burst.calls[u].data)
            => /\ last.note = "saving"
               /\ last.arg.userId = u
               /\ last.arg.resumeData = burst.calls[u].data

\* C1, the diverging run: user u1 edited twice in the window and its tracker
\* is pending with unsaved data, a call for u2 followed, and the timer fired
\* without a write for u1
C1Lost ==
    /\ last.op = "timer"
    /\ last.arg.userId = "u2"
    /\ "u1" \in DOMAIN burst.calls
    /\ burst.calls["u1"].n >= 2
    /\ changeTrackers["u1"].pendingSave
    /\ changeTrackers["u1"].lastData # burst.calls["u1"].data
    /\ ~\E r \in inflight : r.kind = "autosave"

\* C2: applying a parsed partial object to entry i of array field F of the
\* document D the request read changes only the keys of D[F][i] the object
\* contains (set to the object's trimmed values); the keys absent from it,
\* every other entry of D[F], every other field of the persisted document
\* and every other document keep their values
C2EntryFrame ==
    [][\A r \in inflight :
          (Completes(r) /\ last'.op = "enhanceField" /\ last'.note = "entry") =>
          LET i == r.index + 1
              partial == last'.arg
              before == r.data[r.field]
              after == store'[r.id][r.field]
          IN  /\ Len(after) = Len(before)
              /\ \A j \in 1..Len(before) : j # i => after[j] = before[j]
              /\ DOMAIN after[i] = DOMAIN before[i]
              /\ \A k \in DOMAIN before[i] :
                    after[i][k] = IF k \in DOMAIN partial THEN Trim(partial[k])
                                  ELSE before[i][k]
              /\ \A g \in (DOMAIN store[r.id]) \ {r.field, "updatedAt"} :
                    store'[r.id][g] = store[r.id][g]
              /\ \A d \in (DOMAIN store) \ {r.id} : store'[d] = store[d]
              /\ DOMAIN store' = DOMAIN store]_vars

\* C2, its case: an entry enhancement was applied whose object holds some
\* keys of the entry and not others, on an array with another entry
C2Applied ==
    /\ last.op = "enhanceField"
    /\ last.note = "entry"
    /\ last.status = 200
    /\ "description" \in DOMAIN last.arg
    /\ "accomplishment" \notin DOMAIN last.arg
    /\ Len(store[last.id][last.field]) >= 2
    /\ store[last.id][last.field][last.index + 1].description = Trim(last.arg.description)
    /\ store[last.id][last.field][last.index + 1].accomplishment # <<>>

\* C3: when the generation model returns text that is not valid JSON for a
\* field that expects structured JSON, the enhancement request is answered
\* with a success response, not an error status
C3Original ==
    (last.op = "enhanceField" /\ last.note = "parse error") => last.status = 200

\* C3, the diverging run: the reply to an entry prompt did not parse and the
\* request was answered 500
C3ParseError ==
    /\ last.op = "enhanceField"
    /\ last.note = "parse error"
    /\ last.index # NoIndex
    /\ last.status = 500

\* C4: when the reply to an enhancement of field F is not valid JSON, the
\* persisted value of F after the request equals the value the store held
\* immediately before the request's outcome was produced
C4ParseErrorKeepsField ==
    [][\A r \in inflight :
          (Completes(r) /\ last'.op = "enhanceField" /\ last'.note = "parse error") =>
              store'[r.id][r.field] = store[r.id][r.field]]_vars

\* C4, its case: a reply did not parse after another request had changed
\* the field since this request read it, and the changed value is persisted
C4ChangedValueKept ==
    /\ last.op = "enhanceField"
    /\ last.note = "parse error"
    /\ enhanced.id = last.id
    /\ enhanced.field = last.field
    /\ enhanced.value # enhanced.old
    /\ store[last.id][last.field] = enhanced.value

\* some persisted document holds the address, compared as the store
\* compares it (trimmed, in lower case)
Held(st, email) == \E j \in DOMAIN st : st[j].email = Lower(Trim(email))

\* the step is createResume up to its call of saveResumeData
CreateArrives == ops' = ops + 1 /\ last'.op = "createResume"

\* C5 as stated: a create request whose email is held by a persisted
\* document is answered 409, whatever its other fields are
C5Original ==
    (/\ last.op = "createResume"
     /\ last.note \in {"Validation failed", "Resume with this email already exists",
                       "saveResumeData"}
     /\ Held(store, last.arg.email))
    => last.status = 409

\* C5: a create request whose email is held by a persisted document is
\* rejected, with 409 when its name, email and phone pass validateResumeData
\* and with 400 when they do not; no store call is issued and every
\* persisted document is left unchanged
C5HeldEmailRejected ==
    [][(CreateArrives /\ Held(store, last'.arg.email)) =>
          /\ last'.status = IF validateResumeData(last'.arg) = <<>> THEN 409 ELSE 400
          /\ inflight' = inflight
          /\ store' = store]_vars

\* C5, its case: a 409 for a payload that differs from the document holding
\* the address in the case of the address and in another field
C5Conflict ==
    /\ last.op = "createResume"
    /\ last.status = 409
    /\ last.id \in DOMAIN store
    /\ last.arg.email # store[last.id].email
    /\ last.arg.summary # store[last.id].summary

\* C6: in every reachable state no two persisted documents have the same
\* lowercase-normalized email
C6UniqueEmail ==
    \A i, j \in DOMAIN store :
        i # j => Lower(Trim(store[i].email)) # Lower(Trim(store[j].email))

\* C6, its case: two documents are persisted and a write that would have
\* given one the address of the other was refused by the index
C6DuplicateRefused ==
    /\ Cardinality(DOMAIN store) = 2
    /\ last.note = "E11000"
    /\ Held(store, last.arg.email)

\* the persisted document equals the payload as the schema casts it
Persisted(doc, data) ==
    \A f \in (DOMAIN doc) \ {"_id", "updatedAt"} : doc[f] = CastDoc(data)[f]

\* C7: nothing coordinates the autosave flush with writes made since its
\* snapshot was taken: the flush of a snapshot for an existing document
\* whose address no other document holds always commits, and the persisted
\* document then equals the snapshot in every field
C7FlushCommitsSnapshot ==
    [][\A r \in inflight :
          (/\ Completes(r)
           /\ r.kind = "autosave"
           /\ r.pc = "findByIdAndUpdate"
           /\ r.id \in DOMAIN store
           /\ ~\E j \in (DOMAIN store) \ {r.id} : store[j].email = Lower(Trim(r.data.email)))
          => /\ last'.note = "ok"
             /\ Persisted(store'[r.id], r.data)]_vars

\* C7, the execution: an enhancement changed a field while the timer held a
\* snapshot, was answered 200 with the new value, and the flush of that
\* snapshot has put the value from before the enhancement back
C7EnhancementOverwritten ==
    /\ last.op = "autosave"
    /\ last.note = "ok"
    /\ enhanced.id = last.id
    /\ enhanced.snap = last.arg
    /\ enhanced.value # enhanced.old
    /\ last.arg[enhanced.field] = enhanced.old
    /\ store[last.id][enhanced.field] = enhanced.old

\* C8: when an autosave store write fails, the tracker of that user stays
\* PendingSave (pendingSave true, lastData and lastSavedAt unchanged) and no
\* handler or caller sees the failure
C8Original ==
    [][\A r \in inflight :
          (Completes(r) /\ r.kind = "autosave" /\ last'.note # "ok") =>
              /\ changeTrackers'[r.user].pendingSave
              /\ changeTrackers'[r.user].lastData = changeTrackers[r.user].lastData
              /\ changeTrackers'[r.user].lastSavedAt = changeTrackers[r.user].lastSavedAt
              /\ last'.status = 0
              /\ crashed' = crashed]_vars

\* C8, the diverging state: an autosave write has failed and the tracker of
\* its user is not pending, though it has never seen the data of that write
C8FailedNotPending ==
    /\ last.op = "autosave"
    /\ last.note = "null"
    /\ \E u \in DOMAIN changeTrackers :
          /\ ~changeTrackers[u].pendingSave
          /\ changeTrackers[u].lastData # last.arg
          /\ burst.user = u
          /\ burst.calls[u].data = last.arg

\* C9: when the generation-model call throws during an enhancement request,
\* the handler answers 500 and the server keeps running
C9Original ==
    (last.op = "enhanceField" /\ last.note = "generation failed")
    => (last.status = 500 /\ ~crashed)

\* C9, the diverging state: the generation model threw, no response was
\* sent and the process has exited
C9ProcessExit ==
    /\ last.op = "enhanceField"
    /\ last.note = "generation failed"
    /\ last.status = 0
    /\ crashed

\* the fields some prompt of enhanceField exists for
SupportedFields == {f \in {"name", "phone", "email", "summary", "skills", "experience"} :
                       entrySupported(f) \/ f \in {"summary", "skills"}}

\* the step is enhanceField up to its first await or response
EnhanceArrives == ops' = ops + 1 /\ last'.op = "enhanceField"

EnhanceArrivesFor(field, index) ==
    /\ EnhanceArrives
    /\ last'.id \in DOMAIN store
    /\ last'.field = field
    /\ last'.index = index

\* C11: an entry-mode enhancement request whose index is greater than or
\* equal to the length of document[field] is rejected with 400 (invalid
\* index); the generation model is not called and no document is modified
C11IndexOutOfRange ==
    [][\A f \in {"skills", "experience"} : \A i \in 0..3 :
          (EnhanceArrivesFor(f, i) /\ i >= Len(store[last'.id][f])) =>
              /\ last'.status = 400
              /\ last'.note = "Invalid index for field array"
              /\ inflight' = inflight
              /\ store' = store]_vars

\* C11, its case: a request for the entry just past the end of the
\* experience array was answered 400
C11PastEnd ==
    /\ last.op = "enhanceField"
    /\ last.field = "experience"
    /\ last.id \in DOMAIN store
    /\ last.index = Len(store[last.id].experience)
    /\ last.status = 400
    /\ last.note = "Invalid index for field array"

\* C12: an enhancement request that supplies an index for a field that is
\* not array-shaped is rejected with 400; the generation model is not called
\* and the persisted document is not modified
C12Original ==
    (/\ last.op = "enhanceField"
     /\ last.id \in DOMAIN store
     /\ last.index # NoIndex
     /\ last.field \in ScalarFields
     /\ last.note # "generation failed")
    => (last.status = 400 /\ ~last.wrote)

\* C12, the diverging state: a request for summary with index 0 was answered
\* 200 and the whole summary has been replaced by the model's text
C12IndexIgnored ==
    /\ last.op = "enhanceField"
    /\ last.field = "summary"
    /\ last.index = 0
    /\ last.status = 200
    /\ last.wrote
    /\ store[last.id].summary = Trim(last.arg)
    /\ store[last.id].summary # StoredResume.summary

\* the reference result of skills parsing: the comma-separated tokens of the
\* text in order, each trimmed, the empty ones dropped
ParsedSkills(text) ==
    LET NonEmpty(t) == t # <<>>
    IN  SelectSeq([i \in 1..Len(Split(text)) |-> Trim(Split(text)[i])], NonEmpty)

\* C13: after a whole-field enhancement of skills the stored skills equal
\* the comma-separated tokens of the model's text, in order, each trimmed,
\* with the empty tokens dropped and duplicates kept
C13Original ==
    (last.op = "enhanceField" /\ last.note = "whole" /\ last.field = "skills")
    => store[last.id].skills = ParsedSkills(last.arg)

\* C13, the diverging state: the text "p, ,g" was stored as three skills,
\* the second of them empty
C13EmptyTokenStored ==
    /\ last.op = "enhanceField"
    /\ last.note = "whole"
    /\ last.field = "skills"
    /\ last.arg = <<"p", ",", " ", ",", "g">>
    /\ store[last.id].skills = << <<"p">>, <<>>, <<"g">> >>
    /\ ParsedSkills(last.arg) = << <<"p">>, <<"g">> >>

\* C14: a save request whose resumeData._id matches no persisted document
\* is answered 404
C14Original ==
    (/\ last.op = "saveResume"
     /\ last.status # 0
     /\ last.note # "Validation failed"
     /\ last.arg._id # NoId
     /\ last.arg._id \notin DOMAIN store)
    => last.status = 404

\* C14, the diverging state: the save of a valid document under an _id that
\* no document has was answered 500; no document was created
C14NotFoundAs500 ==
    /\ last.op = "saveResume"
    /\ last.note = "null"
    /\ last.status = 500
    /\ validateResumeData(last.arg) = <<>>
    /\ last.arg._id \notin DOMAIN store
    /\ ~last.wrote

\* the fields of a document the user supplies
UserFields == {"name", "phone", "email", "summary", "skills", "experience"}

\* a string field as the schema stores it
Stored(f, v) == IF f = "email" THEN Lower(Trim(v)) ELSE Trim(v)

\* C15 as stated: after create(D) has answered 201, the lookup by D.email
\* returns a document equal to D in every user-supplied field
C15Original ==
    (last.op = "createResume" /\ last.status = 201) =>
        /\ findOne(store, last.arg.email) # NoId
        /\ \A f \in UserFields : store[findOne(store, last.arg.email)][f] = last.arg[f]

\* C15: after create(D) has answered 201, the lookup by D.email returns the
\* document the create wrote, equal to D up to the schema's normalisation:
\* name, phone, summary and the strings of the entries trimmed, the email
\* trimmed and in lower case; the skills are D's skills trimmed with the
\* blank ones dropped when the create inserted the document, and D's skills
\* as sent when it updated a document that held the address by then
C15CreateThenLookup ==
    [][\A r \in inflight :
          (Completes(r) /\ r.kind = "createResume" /\ last'.status = 201) =>
          LET found == findOne(store', r.data.email)
              D == r.data
          IN  /\ found # NoId
              /\ found = last'.id
              /\ \A f \in {"name", "phone", "summary", "email"} :
                    store'[found][f] = Stored(f, D[f])
              /\ Len(store'[found].experience) = Len(D.experience)
              /\ \A i \in 1..Len(D.experience) : \A k \in EntryKeys :
                    store'[found].experience[i][k] = Trim(D.experience[i][k])
              /\ store'[found].skills =
                    IF r.pc = "save"
                    THEN SelectSeq([i \in 1..Len(D.skills) |-> Trim(D.skills[i])],
                                   LAMBDA t : t # <<>>)
                    ELSE D.skills]_vars

\* C15, its case: a create was answered 201 for a document sent with the
\* address in upper case, a padded name and a blank skill; the lookup by the
\* address as sent finds it, stored in normal form
C15Normalised ==
    /\ last.op = "createResume"
    /\ last.status = 201
    /\ findOne(store, last.arg.email) = last.id
    /\ last.arg.email = EmBUpper
    /\ store[last.id].email = EmB
    /\ store[last.id].name = <<"n">>
    /\ store[last.id].skills = << <<"k">> >>

\* C16: when save requests carrying full documents for the same document
\* run concurrently, each write that succeeds leaves the persisted document
\* equal, in every field, to the payload of that write: after both, it is the
\* payload of the write applied last, never a mixture of the two
C16LastWriteWins ==
    [][\A r \in inflight :
          (/\ Completes(r)
           /\ r.kind = "saveResume"
           /\ r.pc = "findByIdAndUpdate"
           /\ last'.status = 200)
          => Persisted(store'[last'.id], r.data)]_vars

\* C16, its case: two saves with different payloads for one document were
\* suspended together, the first was applied and answered 200, then the
\* second; the document equals the second payload and not the first
C16SecondPayloadPersisted ==
    /\ last.op = "saveResume"
    /\ last.status = 200
    /\ raced.id = last.id
    /\ raced.pending = last.arg
    /\ raced.first # last.arg
    /\ CastDoc(raced.first).name # CastDoc(last.arg).name
    /\ CastDoc(raced.first).summary # CastDoc(last.arg).summary
    /\ Persisted(store[last.id], last.arg)
    /\ ~Persisted(store[last.id], raced.first)

\* C17: after every successful write of a document the persisted skills
\* list contains no blank or whitespace-only string
C17Original ==
    \A d \in DOMAIN store : \A i \in 1..Len(store[d].skills) :
        Trim(store[d].skills[i]) # <<>>

\* C17, the diverging state: a skills enhancement whose text was blank was
\* answered 200 and the persisted skills are the one empty string
C17BlankSkillStored ==
    /\ last.op = "enhanceField"
    /\ last.status = 200
    /\ last.field = "skills"
    /\ Trim(last.arg) = <<>>
    /\ store[last.id].skills = << <<>> >>

\* C18: in every reachable state the required scalar fields of every
\* persisted document are non-empty after trimming
C18Original ==
    \A d \in DOMAIN store : \A f \in ScalarFields : Trim(store[d][f]) # <<>>

\* C18, the diverging state: a summary enhancement whose text was blank was
\* answered 200 and the persisted summary is empty
C18EmptySummaryStored ==
    /\ last.op = "enhanceField"
    /\ last.status = 200
    /\ last.field = "summary"
    /\ Trim(last.arg) = <<>>
    /\ store[last.id].summary = <<>>

\* C19: a whole-field enhancement of field F replaces document[F] with the
\* value parsed from the model's text (the trimmed text; for skills its
\* comma-separated tokens, each trimmed) and every other field of the
\* persisted document, and every other document, has the same value after
\* the write as immediately before it
C19WholeFieldFrame ==
    [][\A r \in inflight :
          (Completes(r) /\ last'.op = "enhanceField" /\ last'.note = "whole") =>
          LET text == last'.arg IN
              /\ store'[r.id][r.field] =
                    IF r.field = "skills"
                    THEN [i \in 1..Len(Split(text)) |-> Trim(Split(text)[i])]
                    ELSE Trim(text)
              /\ \A g \in (DOMAIN store[r.id]) \ {r.field, "updatedAt"} :
                    store'[r.id][g] = store[r.id][g]
              /\ \A d \in (DOMAIN store) \ {r.id} : store'[d] = store[d]
              /\ DOMAIN store' = DOMAIN store]_vars

\* C19, its case: a summary enhancement was written to a document whose
\* name a save request has changed; the summary is the model's text, the
\* name is the saved one and the skills are as they were
C19SummaryReplaced ==
    /\ last.op = "enhanceField"
    /\ last.note = "whole"
    /\ last.field = "summary"
    /\ last.status = 200
    /\ store[last.id].summary = Trim(last.arg)
    /\ store[last.id].summary # StoredResume.summary
    /\ store[last.id].name # StoredResume.name
    /\ store[last.id].skills = StoredResume.skills

\* C20: a tracked edit for an already-tracked user whose tracker is Idle
\* moves the tracker to PendingSave only when the new snapshot differs from
\* lastData; an edit whose snapshot equals lastData leaves it Idle
C20Original ==
    [][\A u \in DOMAIN changeTrackers :
          (/\ ops' = ops + 1
           /\ last'.op = "trackChanges"
           /\ burst'.user = u
           /\ ~changeTrackers[u].pendingSave)
          => changeTrackers'[u].pendingSave = (last'.arg # changeTrackers[u].lastData)]_vars

\* C20, the diverging state: the second of two tracked edits of a user
\* carried the snapshot the tracker already holds, and the tracker is
\* PendingSave
C20PendingOnEqualSnapshot ==
    /\ ops = 2
    /\ last.op = "trackChanges"
    /\ burst.user \in DOMAIN changeTrackers
    /\ burst.calls[burst.user].n = 2
    /\ changeTrackers[burst.user].lastData = last.arg
    /\ changeTrackers[burst.user].lastSavedAt = 0
    /\ changeTrackers[burst.user].pendingSave

\* the step is the debounce timer firing
TimerFires == timer.armed /\ last'.op = "timer"

\* C21: an autosave write that succeeds leaves the user's tracker Idle
\* (pendingSave false) with lastData equal to the data written and
\* lastSavedAt set; the timer starts an autosave write exactly when the
\* user's tracker is PendingSave and the timer's data differs from lastData,
\* and otherwise it writes nothing and starts nothing
C21TimerTransitions ==
    [][/\ \A r \in inflight :
             (Completes(r) /\ r.kind = "autosave" /\ last'.wrote)
             => /\ changeTrackers'[r.user].lastData = r.data
                /\ ~changeTrackers'[r.user].pendingSave
                /\ changeTrackers'[r.user].lastSavedAt > 0
                /\ Persisted(store'[last'.id], r.data)
       /\ TimerFires
          => /\ store' = store
             /\ IF /\ changeTrackers[timer.userId].pendingSave
                   /\ changeTrackers[timer.userId].lastData # timer.resumeData
                THEN \E r \in inflight' \ inflight :
                        /\ r.kind = "autosave"
                        /\ r.user = timer.userId
                        /\ r.data = timer.resumeData
                ELSE inflight' = inflight]_vars

\* C21, its case: the timer fired for a PendingSave tracker, the autosave
\* write succeeded, and the tracker is Idle with the written data
C21SavedAndIdle ==
    /\ last.op = "autosave"
    /\ last.wrote
    /\ \E u \in DOMAIN changeTrackers :
          /\ changeTrackers[u].lastData = last.arg
          /\ ~changeTrackers[u].pendingSave
          /\ changeTrackers[u].lastSavedAt > 0
    /\ Persisted(store[last.id], last.arg)

\* C22: a tracked edit of one user never cancels, postpones or replaces the
\* pending debounced save of another user: a timer that is armed for user v
\* with a save that is due stays armed for v with v's data when another
\* user's edit is tracked
C22Original ==
    [][\A v \in DOMAIN changeTrackers :
          (/\ timer.armed
           /\ timer.userId = v
           /\ autoSaveDue(changeTrackers, v, timer.resumeData)
           /\ last'.op = "trackChanges"
           /\ burst'.user # v)
          => /\ timer'.armed
             /\ timer'.userId = v
             /\ timer'.resumeData = timer.resumeData]_vars

\* C22, the diverging state: the timer fired for u2 after u2's call had
\* replaced the pending save of u1; nothing is in flight, no timer is armed,
\* and the data of u1's edit is neither stored nor scheduled
C22OtherUsersSaveDropped ==
    /\ last.op = "timer"
    /\ last.arg.userId = "u2"
    /\ ~timer.armed
    /\ inflight = {}
    /\ "u1" \in DOMAIN burst.calls
    /\ changeTrackers["u1"].pendingSave
    /\ burst.calls["u1"].data # changeTrackers["u1"].lastData
    /\ ~Persisted(store[burst.calls["u1"].data._id], burst.calls["u1"].data)

\* the autosave writes of user u that are suspended at the store
autosavesOf(u) == {r \in inflight : r.kind = "autosave" /\ r.user = u}

\* C23: for each user at most one autosave store write is in flight at any
\* time
C23Original == \A u \in Users : Cardinality(autosavesOf(u)) <= 1

\* C23, the diverging state: the timer has fired for a user whose earlier
\* autosave write has not returned, and two autosave writes of that user
\* are suspended at the store
C23SecondWriteStarted ==
    /\ last.op = "timer"
    /\ last.note = "saving"
    /\ \E r1, r2 \in autosavesOf(last.arg.userId) :
          /\ r1 # r2
          /\ r2.data = last.arg.resumeData
          /\ changeTrackers[last.arg.userId].pendingSave

\* C24: the first tracked event of a user creates the user's tracker Idle
\* (pendingSave false, never saved) with lastData equal to the snapshot of
\* that event, and as long as no later event of the user is tracked no
\* autosave write of the user is started
C24FirstEventIdle ==
    [][/\ \A u \in (DOMAIN changeTrackers') \ (DOMAIN changeTrackers) :
             /\ ~changeTrackers'[u].pendingSave
             /\ changeTrackers'[u].lastSavedAt = 0
             /\ timer'.armed
             /\ timer'.userId = u
             /\ changeTrackers'[u].lastData = timer'.resumeData
       /\ \A u \in DOMAIN changeTrackers' :
             (~changeTrackers'[u].pendingSave /\ changeTrackers'[u].lastSavedAt = 0)
             => {r \in inflight' : r.kind = "autosave" /\ r.user = u} = {}]_vars

\* C24, its case: a create request was the user's first tracked event, the
\* timer it armed has fired, and nothing was saved: the tracker is Idle
\* with the created document as lastData
C24FirstEventNotSaved ==
    /\ last.op = "timer"
    /\ last.note = "nothing to save"
    /\ last.arg.resumeData._id = 2
    /\ 2 \in DOMAIN store
    /\ changeTrackers[last.arg.userId].lastData = last.arg.resumeData
    /\ ~changeTrackers[last.arg.userId].pendingSave
    /\ changeTrackers[last.arg.userId].lastSavedAt = 0
    /\ store[2] = last.arg.resumeData
    /\ autosavesOf(last.arg.userId) = {}

\* C25: of two create requests for the same address, not stored when they
\* arrived, that are processed concurrently, at most one is answered 201:
\* the one that is answered when the address has been stored meanwhile is
\* answered 409 and leaves the stored document alone
C25Original ==
    [][\A r \in inflight :
          (/\ Completes(r)
           /\ r.kind = "createResume"
           /\ last'.status # 0
           /\ Held(store, r.data.email))
          => /\ last'.status = 409
             /\ store' = store]_vars

\* C25, the diverging state: a create request was answered 201 for a
\* document that another create had inserted; its write was an update of
\* that document, which now holds the blank skill the insert had dropped
C25SecondCreateUpdated ==
    /\ last.op = "createResume"
    /\ last.status = 201
    /\ last.id \in DOMAIN store
    /\ store[last.id].updatedAt = 2
    /\ store[last.id].skills # CleanSkills(store[last.id].skills)
    /\ Persisted(store[last.id], last.arg)

\* C25, the other diverging state: both creates found no document, the
\* second insert hit the unique index and the request was answered 500
C25SecondCreate500 ==
    /\ last.op = "createResume"
    /\ last.status = 500
    /\ last.note = "E11000"
    /\ Held(store, last.arg.email)

\* C26: an entry enhancement write leaves every other entry of the array
\* at the value persisted when the write is applied, so a change another
\* request committed to another entry after the enhancement read the
\* document is kept
C26Original ==
    [][\A r \in inflight :
          (Completes(r) /\ last'.op = "enhanceField" /\ last'.note = "entry") =>
          \A j \in 1..Len(store[r.id][r.field]) :
              j # r.index + 1 => store'[r.id][r.field][j] = store[r.id][r.field][j]]_vars

\* C26, the diverging state: a save request changed the title of the second
\* entry while an enhancement of the first entry was awaiting the model (the
\* tracker holds the saved document); the enhancement was written and the
\* second entry has its old title again, next to the saved summary
C26OtherEntryReverted ==
    /\ last.op = "enhanceField"
    /\ last.note = "entry"
    /\ last.index = 0
    /\ "u1" \in DOMAIN changeTrackers
    /\ changeTrackers["u1"].lastData._id = last.id
    /\ changeTrackers["u1"].lastData.experience[2].title = <<"v">>
    /\ store[last.id].summary = changeTrackers["u1"].lastData.summary
    /\ store[last.id].experience[2].title = StoredResume.experience[2].title

\* lines 408-411: the sub-fields the entry prompt asks the model to return
promptedKeys(field) ==
    IF field = "experience" THEN {"description", "accomplishment"} ELSE {}

\* C27: an entry enhancement changes only the sub-fields its prompt asks
\* for, whatever keys the model's JSON holds: every other sub-field of the
\* entry keeps the value the request read
C27Original ==
    [][\A r \in inflight :
          (Completes(r) /\ last'.op = "enhanceField" /\ last'.note = "entry") =>
          \A k \in (DOMAIN r.data[r.field][r.index + 1]) \ promptedKeys(r.field) :
              store'[r.id][r.field][r.index + 1][k] = r.data[r.field][r.index + 1][k]]_vars

\* C27, the diverging state: the model's JSON held a title, which the
\* experience prompt does not ask for, and the entry's title is now the
\* model's
C27UnpromptedKeyWritten ==
    /\ last.op = "enhanceField"
    /\ last.note = "entry"
    /\ last.status = 200
    /\ "title" \in DOMAIN last.arg
    /\ "title" \notin promptedKeys(last.field)
    /\ store[last.id][last.field][last.index + 1].title = Trim(last.arg.title)
    /\ store[last.id][last.field][last.index + 1].title
           # StoredResume[last.field][last.index + 1].title

\* C28: a tracked edit that arrives while an autosave write of the same
\* user is in flight is not lost: when that write completes with the timer
\* armed for the user's newer data, the tracker is still PendingSave
C28Original ==
    [][\A r \in inflight :
          (/\ Completes(r)
           /\ r.kind = "autosave"
           /\ last'.wrote
           /\ timer.armed
           /\ timer.userId = r.user
           /\ timer.resumeData # r.data)
          => changeTrackers'[r.user].pendingSave]_vars

\* C28, the diverging state: the timer armed by an edit that arrived during
\* an autosave write has fired after that write completed; the tracker was
\* Idle, nothing was saved, nothing is in flight or scheduled, and the
\* edit's data is not in the store
C28EditDropped ==
    /\ last.op = "timer"
    /\ last.note = "nothing to save"
    /\ ~timer.armed
    /\ inflight = {}
    /\ changeTrackers[last.arg.userId].lastSavedAt > 0
    /\ ~changeTrackers[last.arg.userId].pendingSave
    /\ changeTrackers[last.arg.userId].lastData # last.arg.resumeData
    /\ last.id \in DOMAIN store
    /\ ~Persisted(store[last.id], last.arg.resumeData)

\* C29: with the timer firing and the store answering, a tracker that is
\* PendingSave is Idle again at some later time, unless the process exits
\* or an autosave write fails: no tracker stays PendingSave forever after
\* the user's edits have stopped
C29Original ==
    \A u \in Users :
        [](   (u \in DOMAIN changeTrackers /\ changeTrackers[u].pendingSave)
           => <>(\/ u \in DOMAIN changeTrackers /\ ~changeTrackers[u].pendingSave
                 \/ crashed
                 \/ last.op = "autosave" /\ ~last.wrote))

\* C29, the diverging state: a user's edit carried the data its tracker
\* holds; the timer has fired with nothing to save, nothing is in flight or
\* scheduled, no write has failed, and the tracker is PendingSave
C29PendingWithNothingScheduled ==
    /\ last.op = "timer"
    /\ last.note = "nothing to save"
    /\ ~timer.armed
    /\ inflight = {}
    /\ ~crashed
    /\ changeTrackers[last.arg.userId].pendingSave
    /\ changeTrackers[last.arg.userId].lastData = last.arg.resumeData
    /\ changeTrackers[last.arg.userId].lastSavedAt = 0
    /\ store = (1 :> StoredResume)

\* C30: a load request writes no document, and the timer it arms starts no
\* store write when it fires
C30Original ==
    [][/\ last'.op = "loadResume" => store' = store
       /\ (last.op = "loadResume" /\ last.status = 200 /\ TimerFires)
          => inflight' = inflight]_vars

\* C30, the diverging state: an autosave wrote a snapshot that holds the
\* summary an enhancement had stored; no edit and no save carries that
\* summary, the snapshot is the document a load request read and passed to
\* trackChanges
C30LoadedSnapshotWritten ==
    /\ last.op = "autosave"
    /\ last.wrote
    /\ enhanced.id = last.id
    /\ enhanced.field = "summary"
    /\ enhanced.value # enhanced.old
    /\ last.arg.summary = enhanced.value
    /\ last.arg.updatedAt = 2
    /\ store[last.id].updatedAt = 3

====
